---- MODULE Spec2Model ----
(***************************************************************************)
(* Model of api-tracking/diff-spec.py: the OpenAPI spec differ.            *)
(*                                                                         *)
(* Python values are represented as follows.                               *)
(*   - a str that the program searches, re-cases or sorts (paths, method   *)
(*     keys, parameter names, schema and property names) is a sequence of  *)
(*     one-character strings, so that `in`, lower(), upper() and `<` are   *)
(*     computed character by character;                                    *)
(*   - a str that is only compared for equality (summary, operationId, a   *)
(*     tag) is a TLA+ string;                                              *)
(*   - a dict is a function whose DOMAIN is its key set; a missing key is  *)
(*     a key outside the DOMAIN;                                           *)
(*   - a list is a sequence; None is the value None below.                 *)
(***************************************************************************)
EXTENDS Integers, Sequences, FiniteSets, TLC

(***************************************************************************)
(* Characters and str operations                                           *)
(***************************************************************************)
LowerAlpha == <<"a","b","c","d","e","f","g","h","i","j","k","l","m",
                "n","o","p","q","r","s","t","u","v","w","x","y","z">>

UpperAlpha == <<"A","B","C","D","E","F","G","H","I","J","K","L","M",
                "N","O","P","Q","R","S","T","U","V","W","X","Y","Z">>

Digits == <<"0","1","2","3","4","5","6","7","8","9">>

IndexIn(seq, c) == CHOOSE i \in 1..Len(seq) : seq[i] = c

IsIn(seq, c) == \E i \in 1..Len(seq) : seq[i] = c

\* ord(c): the code point of a character (ASCII subset the inputs use).
ord(c) ==
  IF IsIn(UpperAlpha, c) THEN 64 + IndexIn(UpperAlpha, c)
  ELSE IF IsIn(LowerAlpha, c) THEN 96 + IndexIn(LowerAlpha, c)
  ELSE IF IsIn(Digits, c) THEN 47 + IndexIn(Digits, c)
  ELSE IF c = "-" THEN 45
  ELSE IF c = "/" THEN 47
  ELSE IF c = "_" THEN 95
  ELSE IF c = "{" THEN 123
  ELSE 125

\* str.lower()
str_lower(s) ==
  [i \in 1..Len(s) |->
     IF IsIn(UpperAlpha, s[i]) THEN LowerAlpha[IndexIn(UpperAlpha, s[i])] ELSE s[i]]

\* str.upper()
str_upper(s) ==
  [i \in 1..Len(s) |->
     IF IsIn(LowerAlpha, s[i]) THEN UpperAlpha[IndexIn(LowerAlpha, s[i])] ELSE s[i]]

\* `needle in hay` for two strs: substring search.
str_contains(needle, hay) ==
  \E i \in 0..(Len(hay) - Len(needle)) : SubSeq(hay, i + 1, i + Len(needle)) = needle

\* a < b for two strs: lexicographic by code point.
str_lt(a, b) ==
  \E i \in 1..(Len(b)) :
     /\ i <= Len(a) + 1
     /\ \A j \in 1..(i - 1) : a[j] = b[j]
     /\ \/ i = Len(a) + 1
        \/ ord(a[i]) < ord(b[i])

\* k1 < k2 for two (method, path) tuples.
key_lt(k1, k2) ==
  \/ str_lt(k1[1], k2[1])
  \/ k1[1] = k2[1] /\ str_lt(k1[2], k2[2])

\* Python's None, distinct from every str (no str has a character "None").
None == <<"None">>

\* sorted(S) raises TypeError when it has to compare None with a str.
sorted_raises(S) == None \in S /\ \E x \in S : x # None

\* sorted(S) for a set of strs (or the set {None}).
sorted_strs(S) ==
  [i \in 1..Cardinality(S) |->
     CHOOSE x \in S : Cardinality({y \in S : str_lt(y, x)}) = i - 1]

\* sorted(S) for a set of (method, path) tuples.
sorted_keys(S) ==
  [i \in 1..Cardinality(S) |->
     CHOOSE x \in S : Cardinality({y \in S : key_lt(y, x)}) = i - 1]

\* sorted_list that leaves the list in the order given.
sorted_list_not_sorted(l) == l

\* sorted(l) for a list of strs; repeated elements are kept.
sorted_list(l) ==
  [i \in 1..Len(l) |->
     CHOOSE x \in {l[j] : j \in 1..Len(l)} :
        /\ Cardinality({j \in 1..Len(l) : str_lt(l[j], x)}) < i
        /\ i <= Cardinality({j \in 1..Len(l) : str_lt(l[j], x) \/ l[j] = x})]

\* set(l) for a list.
set_of(l) == {l[i] : i \in 1..Len(l)}

\* The empty dict, and dict.get(k, default).
EmptyDict == [k \in {} |-> k]

dict_get(d, k, default) == IF k \in DOMAIN d THEN d[k] ELSE default

(***************************************************************************)
(* HTTP_METHODS                                                            *)
(***************************************************************************)
HTTP_METHODS == { <<"g","e","t">>, <<"p","o","s","t">>, <<"p","u","t">>,
                  <<"p","a","t","c","h">>, <<"d","e","l","e","t","e">> }

(***************************************************************************)
(* extract_endpoints(spec)                                                 *)
(***************************************************************************)
\* method_skipped that compares the key without regard to letter case.
method_skipped_ignoring_case(method) == str_lower(method) \notin HTTP_METHODS

\* `method not in HTTP_METHODS`: the key is skipped.
method_skipped(method) == method \notin HTTP_METHODS

\* The Endpoint record built from one operation's details.
endpoint_info(details) ==
  [ operationId |-> dict_get(details, "operationId", ""),
    summary     |-> dict_get(details, "summary", ""),
    tags        |-> dict_get(details, "tags", <<>>),
    deprecated  |-> dict_get(details, "deprecated", FALSE),
    parameters  |->
      LET ps == dict_get(details, "parameters", <<>>)
      IN  [i \in 1..Len(ps) |->
             [ name     |-> dict_get(ps[i], "name", None),
               in       |-> dict_get(ps[i], "in", None),
               required |-> dict_get(ps[i], "required", FALSE) ]] ]

\* A dict (method.upper(), path) -> endpoint info. Two kept method keys of one
\* path never upper-case to the same key, so no entry is overwritten.
extract_endpoints(spec) ==
  LET paths == dict_get(spec, "paths", EmptyDict)
      kept  == {mp \in UNION {{<<m, p>> : m \in DOMAIN paths[p]} : p \in DOMAIN paths} :
                   ~method_skipped(mp[1])}
      keys  == {<<str_upper(mp[1]), mp[2]>> : mp \in kept}
  IN  [key \in keys |->
         LET m == CHOOSE m \in DOMAIN paths[key[2]] :
                     <<m, key[2]>> \in kept /\ str_upper(m) = key[1]
         IN  endpoint_info(paths[key[2]][m])]

(***************************************************************************)
(* extract_schemas(spec)                                                   *)
(***************************************************************************)
extract_schemas(spec) ==
  LET schemas == dict_get(dict_get(spec, "components", EmptyDict), "schemas", EmptyDict)
  IN  [name \in DOMAIN schemas |->
         [ properties |-> sorted_strs(DOMAIN dict_get(schemas[name], "properties", EmptyDict)),
           required   |-> sorted_list(dict_get(schemas[name], "required", <<>>)) ]]

(***************************************************************************)
(* diff_endpoints(baseline, current)                                       *)
(***************************************************************************)
\* {p["name"] for p in info["parameters"]}
param_names(info) == {info.parameters[i].name : i \in 1..Len(info.parameters)}

\* The four field checks of lines 66-71, each on its own.
summary_differs(old, new) == old.summary # new.summary

deprecated_differs(old, new) == old.deprecated # new.deprecated

\* tags_differ that compares the tags as sets.
tags_differ_as_sets(old, new) ==
  {old.tags[i] : i \in 1..Len(old.tags)} # {new.tags[i] : i \in 1..Len(new.tags)}

tags_differ(old, new) == old.tags # new.tags

\* sorted(added_params) or sorted(removed_params) raises TypeError.
endpoint_diffs_raises(old, new) ==
  \/ sorted_raises(param_names(new) \ param_names(old))
  \/ sorted_raises(param_names(old) \ param_names(new))

\* endpoint_diffs that does not look for removed parameters.
endpoint_diffs_without_removed_params(old, new) ==
  LET added_params == param_names(new) \ param_names(old)
  IN  (IF summary_differs(old, new)
         THEN <<[kind |-> "summary", old |-> old.summary, new |-> new.summary]>>
         ELSE <<>>)
      \o (IF deprecated_differs(old, new)
            THEN <<[kind |-> "deprecated", old |-> old.deprecated, new |-> new.deprecated]>>
            ELSE <<>>)
      \o (IF tags_differ(old, new)
            THEN <<[kind |-> "tags", old |-> old.tags, new |-> new.tags]>>
            ELSE <<>>)
      \o (IF added_params # {}
            THEN <<[kind |-> "new params", names |-> sorted_strs(added_params)]>>
            ELSE <<>>)

\* The list `diffs` built for one shared key, in the order of the appends.
endpoint_diffs(old, new) ==
  LET added_params   == param_names(new) \ param_names(old)
      removed_params == param_names(old) \ param_names(new)
  IN  (IF summary_differs(old, new)
         THEN <<[kind |-> "summary", old |-> old.summary, new |-> new.summary]>>
         ELSE <<>>)
      \o (IF deprecated_differs(old, new)
            THEN <<[kind |-> "deprecated", old |-> old.deprecated, new |-> new.deprecated]>>
            ELSE <<>>)
      \o (IF tags_differ(old, new)
            THEN <<[kind |-> "tags", old |-> old.tags, new |-> new.tags]>>
            ELSE <<>>)
      \o (IF added_params # {}
            THEN <<[kind |-> "new params", names |-> sorted_strs(added_params)]>>
            ELSE <<>>)
      \o (IF removed_params # {}
            THEN <<[kind |-> "removed params", names |-> sorted_strs(removed_params)]>>
            ELSE <<>>)

\* `if diffs:` of line 82 and line 112.
has_diffs(entry) == Len(entry[2]) > 0

\* diff_endpoints that reports every current key as added.
diff_endpoints_adding_every_current_key(baseline, current) ==
  LET baseline_keys == DOMAIN baseline
      current_keys  == DOMAIN current
      shared        == sorted_keys(baseline_keys \cap current_keys)
      raises        == \E key \in baseline_keys \cap current_keys :
                          endpoint_diffs_raises(baseline[key], current[key])
  IN  IF raises
        THEN [raised |-> TRUE, added |-> <<>>, removed |-> <<>>, changed |-> <<>>]
        ELSE [raised  |-> FALSE,
              added   |-> sorted_keys(current_keys),
              removed |-> sorted_keys(baseline_keys \ current_keys),
              changed |-> SelectSeq(
                            [i \in 1..Len(shared) |->
                               <<shared[i],
                                 endpoint_diffs(baseline[shared[i]], current[shared[i]])>>],
                            has_diffs)]

\* The result (added, removed, changed), or raised = TRUE when the loop raises
\* TypeError and nothing is returned.
diff_endpoints(baseline, current) ==
  LET baseline_keys == DOMAIN baseline
      current_keys  == DOMAIN current
      shared        == sorted_keys(baseline_keys \cap current_keys)
      raises        == \E key \in baseline_keys \cap current_keys :
                          endpoint_diffs_raises(baseline[key], current[key])
  IN  IF raises
        THEN [raised |-> TRUE, added |-> <<>>, removed |-> <<>>, changed |-> <<>>]
        ELSE [raised  |-> FALSE,
              added   |-> sorted_keys(current_keys \ baseline_keys),
              removed |-> sorted_keys(baseline_keys \ current_keys),
              changed |-> SelectSeq(
                            [i \in 1..Len(shared) |->
                               <<shared[i],
                                 endpoint_diffs(baseline[shared[i]], current[shared[i]])>>],
                            has_diffs)]

(***************************************************************************)
(* diff_schemas(baseline, current)                                         *)
(***************************************************************************)
\* `old["required"] != new["required"]`: the two lists compared as lists.
required_differs(old, new) == old.required # new.required

schema_diffs(old, new) ==
  LET old_props == set_of(old.properties)
      new_props == set_of(new.properties)
  IN  (IF new_props \ old_props # {}
         THEN <<[kind |-> "new properties", names |-> sorted_strs(new_props \ old_props)]>>
         ELSE <<>>)
      \o (IF old_props \ new_props # {}
            THEN <<[kind |-> "removed properties", names |-> sorted_strs(old_props \ new_props)]>>
            ELSE <<>>)
      \o (IF required_differs(old, new)
            THEN <<[kind |-> "required changed", old |-> old.required, new |-> new.required]>>
            ELSE <<>>)

diff_schemas(baseline, current) ==
  LET baseline_keys == DOMAIN baseline
      current_keys  == DOMAIN current
      shared        == sorted_strs(baseline_keys \cap current_keys)
  IN  [added   |-> sorted_strs(current_keys \ baseline_keys),
       removed |-> sorted_strs(baseline_keys \ current_keys),
       changed |-> SelectSeq(
                     [i \in 1..Len(shared) |->
                        <<shared[i], schema_diffs(baseline[shared[i]], current[shared[i]])>>],
                     has_diffs)]

(***************************************************************************)
(* categorize_endpoint(method, path)                                       *)
(***************************************************************************)
V2_EXPERIMENTAL == <<"/","v","2","-","e","x","p","e","r","i","m","e","n","t","a","l","/">>

ORGS == <<"/","o","r","g","s","/">>

ENTERPRISE == <<"e","n","t","e","r","p","r","i","s","e">>

\* categorize_endpoint that looks for /orgs/ and enterprise first.
categorize_endpoint_enterprise_first(method, path) ==
  IF str_contains(ORGS, path) \/ str_contains(ENTERPRISE, str_lower(path)) THEN "enterprise"
  ELSE IF str_contains(V2_EXPERIMENTAL, path) THEN "experimental"
  ELSE "standard"

categorize_endpoint(method, path) ==
  IF str_contains(V2_EXPERIMENTAL, path) THEN "experimental"
  ELSE IF str_contains(ORGS, path) \/ str_contains(ENTERPRISE, str_lower(path))
         THEN "enterprise"
         ELSE "standard"

(***************************************************************************)
(* format_report(...)                                                      *)
(***************************************************************************)
\* One line of the report: the f-string's template (its backquotes left out)
\* and the values it formats.
Line(template, args) == [template |-> template, args |-> args]

RECURSIVE Concat(_)
\* The concatenation of a sequence of sequences.
Concat(seqs) == IF Len(seqs) = 0 THEN <<>> ELSE Head(seqs) \o Concat(Tail(seqs))

\* total_changes with the changed schemas left out of the sum.
total_changes_without_schema_changed(endpoint_added, endpoint_removed, endpoint_changed, schema_added, schema_removed, schema_changed) ==
  Len(endpoint_added) + Len(endpoint_removed) + Len(endpoint_changed)
    + Len(schema_added) + Len(schema_removed)

\* total_changes of lines 140-147, and total of lines 248-255.
total_changes(endpoint_added, endpoint_removed, endpoint_changed, schema_added, schema_removed, schema_changed) ==
  Len(endpoint_added) + Len(endpoint_removed) + Len(endpoint_changed)
    + Len(schema_added) + Len(schema_removed) + Len(schema_changed)

CATEGORY_ORDER == <<"standard", "experimental", "enterprise">>

\* The block of one category in the New Endpoints section (lines 164-171).
category_block(cat, endpoint_added, current_endpoints) ==
  LET in_cat(key) == categorize_endpoint(key[1], key[2]) = cat
      members     == SelectSeq(endpoint_added, in_cat)
  IN  IF Len(members) = 0 THEN <<>>
      ELSE <<Line("### {cat.title()}\n", <<cat>>),
             Line("| Method | Path | Summary |", <<>>),
             Line("|--------|------|---------|", <<>>)>>
           \o [i \in 1..Len(members) |->
                 Line("| {method} | {path} | {info['summary']} |",
                      <<members[i][1], members[i][2], current_endpoints[members[i]].summary>>)]
           \o <<Line("", <<>>)>>

\* The heading and bullets of one changed entry (lines 184-188, 205-209).
changed_block(entry) ==
  LET name  == entry[1]
      diffs == entry[2]
  IN  << Line("### {name}\n", << name >>) >>
        \o [i \in 1..Len(diffs) |-> Line("- {d}", << diffs[i] >>)]
        \o << Line("", << >>) >>

\* A bulleted list of schema names (lines 191-201).
names_block(title, names) ==
  IF Len(names) = 0 THEN <<>>
  ELSE <<Line(title, <<Len(names)>>)>>
       \o [i \in 1..Len(names) |-> Line("- {name}", <<names[i]>>)]
       \o <<Line("", <<>>)>>

changed_section(title, changed) ==
  IF Len(changed) = 0 THEN <<>>
  ELSE <<Line(title, <<Len(changed)>>)>>
       \o Concat([i \in 1..Len(changed) |-> changed_block(changed[i])])

\* The report as the list lines; the program joins it with newlines.
format_report(endpoint_added, endpoint_removed, endpoint_changed, schema_added, schema_removed, schema_changed, current_endpoints, baseline_endpoints) ==
  LET total == total_changes(endpoint_added, endpoint_removed, endpoint_changed,
                             schema_added, schema_removed, schema_changed)
  IN  IF total = 0
        THEN <<Line("# Miro API Spec Diff Report\n", <<>>),
               Line("No changes detected.\n", <<>>)>>
        ELSE <<Line("# Miro API Spec Diff Report\n", <<>>),
               Line("**{total_changes} changes detected.**\n", <<total>>)>>
             \o (IF Len(endpoint_added) = 0 THEN <<>>
                 ELSE <<Line("## New Endpoints ({len(endpoint_added)})\n",
                             <<Len(endpoint_added)>>)>>
                      \o Concat([c \in 1..Len(CATEGORY_ORDER) |->
                                   category_block(CATEGORY_ORDER[c], endpoint_added,
                                                  current_endpoints)]))
             \o (IF Len(endpoint_removed) = 0 THEN <<>>
                 ELSE <<Line("## Removed Endpoints ({len(endpoint_removed)})\n",
                             <<Len(endpoint_removed)>>),
                        Line("| Method | Path | Summary |", <<>>),
                        Line("|--------|------|---------|", <<>>)>>
                      \o [i \in 1..Len(endpoint_removed) |->
                            Line("| {method} | {path} | {info['summary']} |",
                                 <<endpoint_removed[i][1], endpoint_removed[i][2],
                                   baseline_endpoints[endpoint_removed[i]].summary>>)]
                      \o <<Line("", <<>>)>>)
             \o changed_section("## Changed Endpoints ({len(endpoint_changed)})\n",
                                endpoint_changed)
             \o names_block("## New Schemas ({len(schema_added)})\n", schema_added)
             \o names_block("## Removed Schemas ({len(schema_removed)})\n", schema_removed)
             \o changed_section("## Changed Schemas ({len(schema_changed)})\n",
                                schema_changed)

(***************************************************************************)
(* Inputs: the strs and documents the runs are given                       *)
(***************************************************************************)
\* Method-like keys of a path item.
get == <<"g","e","t">>

post == <<"p","o","s","t">>

GET == <<"G","E","T">>

Get == <<"G","e","t">>

put == <<"p","u","t">>

patch == <<"p","a","t","c","h">>

delete == <<"d","e","l","e","t","e">>

DELETE == <<"D","E","L","E","T","E">>

Patch == <<"P","a","t","c","h">>

POST == <<"P","O","S","T">>

PUT == <<"P","U","T">>

PATCH == <<"P","A","T","C","H">>

parameters_key == <<"p","a","r","a","m","e","t","e","r","s">>

x_internal == <<"x","-","i","n","t","e","r","n","a","l">>

\* Paths.
boards == <<"/","b","o","a","r","d","s">>

widgets == <<"/","v","2","-","e","x","p","e","r","i","m","e","n","t","a","l","/","w","i","d","g","e","t","s">>

items == <<"/","i","t","e","m","s">>

orgs_teams == <<"/","o","r","g","s","/","{","o","r","g","_","i","d","}","/","t","e","a","m","s">>

\* Parameter names and locations.
cursor == <<"c","u","r","s","o","r">>

limit == <<"l","i","m","i","t">>

query == <<"q","u","e","r","y">>

in_path == <<"p","a","t","h">>

\* Schema and property names.
Board == <<"B","o","a","r","d">>

Item == <<"I","t","e","m">>

id == <<"i","d">>

name == <<"n","a","m","e">>

\* Bounds of the inputs.
MaxArgv == 4

MaxParams == 2

MaxRequired == 2

\* All sequences over S of length at most n.
SeqsUpTo(S, n) == UNION {[1..k -> S] : k \in 0..n}

\* Parameter descriptors of the driver's documents: one without any field, one
\* with a name and a location.
DriverParamDescs == { EmptyDict, [name |-> limit, in |-> query] }

\* Operation objects: every optional field absent, then each present.
DriverDetails ==
  { EmptyDict,
    [summary |-> "List boards"],
    [summary |-> "List all boards"],
    [deprecated |-> TRUE],
    [tags |-> <<"boards", "beta">>],
    [tags |-> <<"beta", "boards">>],
    [operationId |-> "getBoards"],
    [parameters |-> <<[name |-> limit, required |-> TRUE]>>],
    [operationId |-> "listBoards", summary |-> "List boards", deprecated |-> FALSE,
     tags |-> <<>>, parameters |-> <<[name |-> cursor, in |-> query, required |-> TRUE]>>] }
  \cup { [parameters |-> ps] : ps \in SeqsUpTo(DriverParamDescs, MaxParams) }

\* The "paths" part of a document: absent, empty, or one to two paths.
DriverPathsParts ==
  { EmptyDict, [paths |-> EmptyDict] }
  \cup { [paths |-> (boards :> (get :> d))] : d \in DriverDetails }
  \cup { [paths |-> (boards :> ((get :> EmptyDict) @@ (parameters_key :> <<>>)))],
         [paths |-> (boards :> (GET :> [summary |-> "List boards"]))],
         [paths |-> (boards :> (get :> EmptyDict))
                    @@ (widgets :> (post :> [summary |-> "Create widget"]))],
         [paths |-> (boards :> (get :> EmptyDict))
                    @@ (orgs_teams :> (get :> [summary |-> "List teams"]))] }

\* The "components" part of a document.
DriverComponentsParts ==
  { EmptyDict,
    [components |-> EmptyDict],
    [components |-> [schemas |-> (Board :> EmptyDict)]],
    [components |-> [schemas |-> (Board :> [properties |-> (id :> "string"),
                                            required |-> <<id>>])]],
    [components |-> [schemas |-> (Board :> [properties |-> (id :> "string") @@ (name :> "string"),
                                            required |-> <<id, name>>])]],
    [components |-> [schemas |-> (Board :> [properties |-> (id :> "string") @@ (name :> "string"),
                                            required |-> <<name, id>>])]],
    [components |-> [schemas |-> (Board :> [properties |-> (id :> "string"),
                                            required |-> <<id, id>>])]],
    [components |-> [schemas |-> (Board :> [properties |-> (id :> "string"),
                                            required |-> <<id>>])
                                 @@ (Item :> [properties |-> (id :> "integer")])]] }

DriverDocs == { p @@ c : p \in DriverPathsParts, c \in DriverComponentsParts }

\* What an input location holds: nothing (open() raises), text that is not
\* JSON (json.load raises), or a JSON document.
Files ==
  { [kind |-> "missing", doc |-> EmptyDict], [kind |-> "not json", doc |-> EmptyDict] }
  \cup { [kind |-> "json", doc |-> d] : d \in DriverDocs }

(***************************************************************************)
(* main(): the driver, one action per statement                            *)
(***************************************************************************)
VARIABLES
  pc,                  \* the statement main() is at
  argv_len,            \* len(sys.argv)
  files,               \* what sys.argv[1] and sys.argv[2] name
  baseline_spec, current_spec,
  baseline_endpoints, current_endpoints,
  baseline_schemas, current_schemas,
  ep,                  \* (ep_added, ep_removed, ep_changed)
  sc,                  \* (sc_added, sc_removed, sc_changed)
  report,
  stdout, stderr,      \* what has been printed to each stream
  exit_status,         \* <<>> while running, <<status>> once exited
  executed,            \* the statements that have completed, in order
  cat_method, cat_path, cat_label   \* a call of categorize_endpoint on its own

vars == <<pc, argv_len, files, baseline_spec, current_spec, baseline_endpoints, current_endpoints, baseline_schemas, current_schemas, ep, sc, report, stdout, stderr, exit_status, executed, cat_method, cat_path, cat_label>>

NoDiff == [raised |-> FALSE, added |-> <<>>, removed |-> <<>>, changed |-> <<>>]

\* The locals of main() before any is assigned, and no categorizer call.
Unassigned ==
  /\ baseline_spec = EmptyDict /\ current_spec = EmptyDict
  /\ baseline_endpoints = EmptyDict /\ current_endpoints = EmptyDict
  /\ baseline_schemas = EmptyDict /\ current_schemas = EmptyDict
  /\ ep = NoDiff /\ sc = NoDiff
  /\ report = <<>> /\ stdout = <<>> /\ stderr = <<>>
  /\ exit_status = <<>> /\ executed = <<>>

NoCategorizerCall == cat_method = <<>> /\ cat_path = <<>> /\ cat_label = ""

Init ==
  /\ pc = "main"
  /\ argv_len \in 1..MaxArgv
  /\ files \in IF argv_len = 3 THEN Files \X Files
                               ELSE {<<[kind |-> "missing", doc |-> EmptyDict],
                                       [kind |-> "missing", doc |-> EmptyDict]>>}
  /\ Unassigned
  /\ NoCategorizerCall

\* An exception nothing catches: the interpreter prints the traceback to
\* stderr and the process exits with status 1.
Uncaught(exception) ==
  /\ pc' = "exited"
  /\ stderr' = Append(stderr, exception)
  /\ exit_status' = <<1>>

\* usage_error that only rejects too few arguments.
usage_error_too_few(n) == n < 3

\* `len(sys.argv) != 3` of line 215.
usage_error(n) == n # 3

\* Lines 215-217.
CheckArgs ==
  /\ pc = "main"
  /\ IF usage_error(argv_len)
       THEN /\ stderr' = Append(stderr, "Usage: {sys.argv[0]} <baseline.json> <current.json>")
            /\ exit_status' = <<1>>
            /\ pc' = "exited"
            /\ UNCHANGED executed
       ELSE /\ pc' = "load_baseline"
            /\ executed' = Append(executed, pc)
            /\ UNCHANGED <<stderr, exit_status>>
  /\ UNCHANGED <<argv_len, files, baseline_spec, current_spec, baseline_endpoints, current_endpoints, baseline_schemas, current_schemas, ep, sc, report, stdout, cat_method, cat_path, cat_label>>

\* load_raises that lets text which is not JSON through as an empty document.
load_raises_missing_only(file) == file.kind = "missing"

\* open() and json.load() of one input: the document, or the exception.
load_raises(file) == file.kind # "json"

load_exception(file) ==
  IF file.kind = "missing" THEN "FileNotFoundError" ELSE "json.JSONDecodeError"

\* Lines 219-220.
LoadBaseline ==
  /\ pc = "load_baseline"
  /\ IF load_raises(files[1])
       THEN /\ Uncaught(load_exception(files[1]))
            /\ UNCHANGED <<baseline_spec, executed>>
       ELSE /\ baseline_spec' = files[1].doc
            /\ pc' = "load_current"
            /\ executed' = Append(executed, pc)
            /\ UNCHANGED <<stderr, exit_status>>
  /\ UNCHANGED <<argv_len, files, current_spec, baseline_endpoints, current_endpoints, baseline_schemas, current_schemas, ep, sc, report, stdout, cat_method, cat_path, cat_label>>

\* Lines 221-222.
LoadCurrent ==
  /\ pc = "load_current"
  /\ IF load_raises(files[2])
       THEN /\ Uncaught(load_exception(files[2]))
            /\ UNCHANGED <<current_spec, executed>>
       ELSE /\ current_spec' = files[2].doc
            /\ pc' = "extract_baseline_endpoints"
            /\ executed' = Append(executed, pc)
            /\ UNCHANGED <<stderr, exit_status>>
  /\ UNCHANGED <<argv_len, files, baseline_spec, baseline_endpoints, current_endpoints, baseline_schemas, current_schemas, ep, sc, report, stdout, cat_method, cat_path, cat_label>>

\* Line 224.
ExtractBaselineEndpoints ==
  /\ pc = "extract_baseline_endpoints"
  /\ baseline_endpoints' = extract_endpoints(baseline_spec)
  /\ pc' = "extract_current_endpoints"
  /\ executed' = Append(executed, pc)
  /\ UNCHANGED <<argv_len, files, baseline_spec, current_spec, current_endpoints, baseline_schemas, current_schemas, ep, sc, report, stdout, stderr, exit_status, cat_method, cat_path, cat_label>>

\* Line 225.
ExtractCurrentEndpoints ==
  /\ pc = "extract_current_endpoints"
  /\ current_endpoints' = extract_endpoints(current_spec)
  /\ pc' = "extract_baseline_schemas"
  /\ executed' = Append(executed, pc)
  /\ UNCHANGED <<argv_len, files, baseline_spec, current_spec, baseline_endpoints, baseline_schemas, current_schemas, ep, sc, report, stdout, stderr, exit_status, cat_method, cat_path, cat_label>>

\* Line 226.
ExtractBaselineSchemas ==
  /\ pc = "extract_baseline_schemas"
  /\ baseline_schemas' = extract_schemas(baseline_spec)
  /\ pc' = "extract_current_schemas"
  /\ executed' = Append(executed, pc)
  /\ UNCHANGED <<argv_len, files, baseline_spec, current_spec, baseline_endpoints, current_endpoints, current_schemas, ep, sc, report, stdout, stderr, exit_status, cat_method, cat_path, cat_label>>

\* Line 227.
ExtractCurrentSchemas ==
  /\ pc = "extract_current_schemas"
  /\ current_schemas' = extract_schemas(current_spec)
  /\ pc' = "diff_endpoints"
  /\ executed' = Append(executed, pc)
  /\ UNCHANGED <<argv_len, files, baseline_spec, current_spec, baseline_endpoints, current_endpoints, baseline_schemas, ep, sc, report, stdout, stderr, exit_status, cat_method, cat_path, cat_label>>

\* Lines 229-231.
DiffEndpoints ==
  /\ pc = "diff_endpoints"
  /\ LET result == diff_endpoints(baseline_endpoints, current_endpoints)
     IN  IF result.raised
           THEN /\ Uncaught("TypeError")
                /\ UNCHANGED <<ep, executed>>
           ELSE /\ ep' = result
                /\ pc' = "diff_schemas"
                /\ executed' = Append(executed, pc)
                /\ UNCHANGED <<stderr, exit_status>>
  /\ UNCHANGED <<argv_len, files, baseline_spec, current_spec, baseline_endpoints, current_endpoints, baseline_schemas, current_schemas, sc, report, stdout, cat_method, cat_path, cat_label>>

\* Line 232.
DiffSchemas ==
  /\ pc = "diff_schemas"
  /\ sc' = diff_schemas(baseline_schemas, current_schemas)
  /\ pc' = "format_report"
  /\ executed' = Append(executed, pc)
  /\ UNCHANGED <<argv_len, files, baseline_spec, current_spec, baseline_endpoints, current_endpoints, baseline_schemas, current_schemas, ep, report, stdout, stderr, exit_status, cat_method, cat_path, cat_label>>

\* Lines 234-243.
FormatReport ==
  /\ pc = "format_report"
  /\ report' = format_report(ep.added, ep.removed, ep.changed,
                             sc.added, sc.removed, sc.changed,
                             current_endpoints, baseline_endpoints)
  /\ pc' = "print"
  /\ executed' = Append(executed, pc)
  /\ UNCHANGED <<argv_len, files, baseline_spec, current_spec, baseline_endpoints, current_endpoints, baseline_schemas, current_schemas, ep, sc, stdout, stderr, exit_status, cat_method, cat_path, cat_label>>

\* Line 245.
PrintReport ==
  /\ pc = "print"
  /\ stdout' = stdout \o report
  /\ pc' = "exit"
  /\ executed' = Append(executed, pc)
  /\ UNCHANGED <<argv_len, files, baseline_spec, current_spec, baseline_endpoints, current_endpoints, baseline_schemas, current_schemas, ep, sc, report, stderr, exit_status, cat_method, cat_path, cat_label>>

\* sys.exit(1 if total > 0 else 0) of line 256.
exit_code(total) == IF total > 0 THEN 1 ELSE 0

\* Lines 247-256.
Exit ==
  /\ pc = "exit"
  /\ exit_status' = <<exit_code(total_changes(ep.added, ep.removed, ep.changed,
                                              sc.added, sc.removed, sc.changed))>>
  /\ pc' = "exited"
  /\ executed' = Append(executed, pc)
  /\ UNCHANGED <<argv_len, files, baseline_spec, current_spec, baseline_endpoints, current_endpoints, baseline_schemas, current_schemas, ep, sc, report, stdout, stderr, cat_method, cat_path, cat_label>>

Next ==
  \/ CheckArgs
  \/ LoadBaseline
  \/ LoadCurrent
  \/ ExtractBaselineEndpoints
  \/ ExtractCurrentEndpoints
  \/ ExtractBaselineSchemas
  \/ ExtractCurrentSchemas
  \/ DiffEndpoints
  \/ DiffSchemas
  \/ FormatReport
  \/ PrintReport
  \/ Exit

Spec == Init /\ [][Next]_vars

(***************************************************************************)
(* main() from line 229 on: the two diffs on a wider range of documents    *)
(***************************************************************************)
\* The statements of main() in order, and the state main() is in when it
\* reaches statement `label` with the two documents loaded.
STATEMENTS == <<"main", "load_baseline", "load_current",
                "extract_baseline_endpoints", "extract_current_endpoints",
                "extract_baseline_schemas", "extract_current_schemas",
                "diff_endpoints", "diff_schemas", "format_report", "print", "exit">>

StatementIndex(label) == CHOOSE i \in 1..Len(STATEMENTS) : STATEMENTS[i] = label

ReachedWith(label, baseline_doc, current_doc) ==
  LET n == StatementIndex(label)
  IN  /\ pc = label
      /\ argv_len = 3
      /\ files = <<[kind |-> "json", doc |-> baseline_doc],
                   [kind |-> "json", doc |-> current_doc]>>
      /\ baseline_spec = baseline_doc
      /\ current_spec = current_doc
      /\ baseline_endpoints = IF n > 4 THEN extract_endpoints(baseline_doc) ELSE EmptyDict
      /\ current_endpoints = IF n > 5 THEN extract_endpoints(current_doc) ELSE EmptyDict
      /\ baseline_schemas = IF n > 6 THEN extract_schemas(baseline_doc) ELSE EmptyDict
      /\ current_schemas = IF n > 7 THEN extract_schemas(current_doc) ELSE EmptyDict
      /\ ep = NoDiff /\ sc = NoDiff
      /\ report = <<>> /\ stdout = <<>> /\ stderr = <<>>
      /\ exit_status = <<>>
      /\ executed = SubSeq(STATEMENTS, 1, n - 1)
      /\ NoCategorizerCall

\* Parameter descriptors: no field at all and two names, one with a location.
DiffParamDescs ==
  { EmptyDict,
    [name |-> cursor, in |-> query],
    [name |-> limit] }

DiffCores ==
  { EmptyDict,
    [operationId |-> "getBoards"],
    [summary |-> "List boards"],
    [deprecated |-> TRUE],
    [tags |-> <<"boards", "beta">>],
    [tags |-> <<"beta", "boards">>],
    [summary |-> "List boards", deprecated |-> TRUE, tags |-> <<"boards", "beta">>] }

\* Operation objects: every core with every parameter list, and two whose
\* cursor parameter has another location and is required.
DiffDetails ==
  { core @@ [parameters |-> ps] :
      core \in DiffCores, ps \in SeqsUpTo(DiffParamDescs, MaxParams) }
  \cup { [parameters |-> <<[name |-> cursor, in |-> in_path, required |-> TRUE]>>],
         [parameters |-> <<[name |-> limit, required |-> TRUE],
                           [name |-> cursor, in |-> in_path, required |-> TRUE]>>] }

\* One endpoint, absent or with any of the operation objects.
OneEndpointDocs ==
  { EmptyDict } \cup { [paths |-> (boards :> (get :> d))] : d \in DiffDetails }

\* A path item or none: the dict with the path as its only key, or empty.
OptionalPath(p, values) == { EmptyDict } \cup { (p :> v) : v \in values }

\* Up to four endpoints, each present or not.
SeveralEndpointDocs ==
  { [paths |-> a @@ b @@ c @@ d] :
      a \in OptionalPath(boards, { (get :> EmptyDict), (get :> [summary |-> "List boards"]) }),
      b \in OptionalPath(widgets, { (post :> EmptyDict) }),
      c \in OptionalPath(orgs_teams, { (get :> EmptyDict), (get :> [deprecated |-> TRUE]) }),
      d \in OptionalPath(items, { (get :> EmptyDict) @@ (delete :> EmptyDict) }) }

\* Schema objects: properties and required each absent or present.
SchemaObjects ==
  { p @@ r :
      p \in { EmptyDict,
              [properties |-> EmptyDict],
              [properties |-> (id :> "string")],
              [properties |-> (name :> "string")],
              [properties |-> (id :> "string") @@ (name :> "string")] },
      r \in { EmptyDict } \cup { [required |-> l] : l \in SeqsUpTo({id, name}, MaxRequired) } }

SchemaDocs ==
  { EmptyDict, [components |-> EmptyDict], [components |-> [schemas |-> EmptyDict]] }
  \cup { [components |-> [schemas |-> a @@ b]] :
           a \in { (Board :> o) : o \in SchemaObjects },
           b \in OptionalPath(Item, { [properties |-> (id :> "integer")] }) }
  \cup { [components |-> [schemas |-> (Item :> [required |-> <<id>>])]] }

DiffInputs ==
  (OneEndpointDocs \X OneEndpointDocs)
    \cup (SeveralEndpointDocs \X SeveralEndpointDocs)
    \cup (SchemaDocs \X SchemaDocs)

InitDiff == \E docs \in DiffInputs : ReachedWith("diff_endpoints", docs[1], docs[2])

NextDiff ==
  \/ DiffEndpoints
  \/ DiffSchemas

SpecDiff == InitDiff /\ [][NextDiff]_vars

(***************************************************************************)
(* main() from line 226 on: the schemas of a wider range of documents      *)
(***************************************************************************)
InitSchemas ==
  \E docs \in SchemaDocs \X SchemaDocs :
     ReachedWith("extract_baseline_schemas", docs[1], docs[2])

NextSchemas ==
  \/ ExtractBaselineSchemas
  \/ ExtractCurrentSchemas
  \/ DiffEndpoints
  \/ DiffSchemas

SpecSchemas == InitSchemas /\ [][NextSchemas]_vars

(***************************************************************************)
(* main() from line 224 on: extraction from documents whose path items     *)
(* hold method keys in several letter cases and keys that are no methods   *)
(***************************************************************************)
MaxKeys == 3

MethodLikeKeys ==
  { get, post, put, patch, delete, GET, Get, POST, Patch, DELETE, parameters_key, x_internal }

\* What a path item holds under a key: a list under "parameters", an
\* operation object (told apart by its operationId) under any other key.
KeyValue(k) ==
  IF k = parameters_key THEN <<[name |-> id, in |-> in_path]>>
  ELSE IF k \in HTTP_METHODS THEN [operationId |-> "lower-case key"]
  ELSE IF k = x_internal THEN [operationId |-> "vendor extension"]
  ELSE [operationId |-> "other letter case"]

PathItems ==
  { [k \in K |-> KeyValue(k)] : K \in { K \in SUBSET MethodLikeKeys : Cardinality(K) <= MaxKeys } }

ExtractDocs ==
  { EmptyDict, [paths |-> EmptyDict] }
  \cup { [paths |-> (boards :> item) @@ other] :
           item \in PathItems,
           other \in OptionalPath(widgets, { (post :> EmptyDict), (POST :> EmptyDict) }) }

InitExtract ==
  \E doc \in ExtractDocs, other \in { EmptyDict, [paths |-> (boards :> (Get :> EmptyDict))] } :
     ReachedWith("extract_baseline_endpoints", doc, other)

NextExtract ==
  \/ ExtractBaselineEndpoints
  \/ ExtractCurrentEndpoints

SpecExtract == InitExtract /\ [][NextExtract]_vars

(***************************************************************************)
(* categorize_endpoint called on its own                                   *)
(***************************************************************************)
MaxSegments == 3

\* Pieces of paths: the three literals the categorizer looks for, in other
\* letter cases, cut short, and split so that two pieces can form a literal.
PathPieces ==
  { V2_EXPERIMENTAL, ORGS, ENTERPRISE, boards,
    <<"/">>,
    <<"/","o","r","g","s">>,
    <<"/","O","r","g","s","/">>,
    <<"/","v","2","-","e","x","p","e","r","i","m","e","n","t","a","l">>,
    <<"/","V","2","-","E","x","p","e","r","i","m","e","n","t","a","l","/">>,
    <<"E","n","t","e","r","p","r","i","s","e">>,
    <<"E","N","T","E","R">>,
    <<"P","R","I","S","E">>,
    <<"e","n","t","e","r">> }

CategorizerPaths == { Concat(pieces) : pieces \in SeqsUpTo(PathPieces, MaxSegments) }

InitCategorize ==
  /\ pc = "categorize"
  /\ cat_method \in { str_upper(get), str_upper(post) }
  /\ cat_path \in CategorizerPaths
  /\ cat_label = ""
  /\ argv_len = 3
  /\ files = <<[kind |-> "missing", doc |-> EmptyDict], [kind |-> "missing", doc |-> EmptyDict]>>
  /\ Unassigned

\* Lines 118-124.
Categorize ==
  /\ pc = "categorize"
  /\ cat_label' = categorize_endpoint(cat_method, cat_path)
  /\ pc' = "categorized"
  /\ UNCHANGED <<argv_len, files, baseline_spec, current_spec, baseline_endpoints, current_endpoints, baseline_schemas, current_schemas, ep, sc, report, stdout, stderr, exit_status, executed, cat_method, cat_path>>

NextCategorize == Categorize

SpecCategorize == InitCategorize /\ [][NextCategorize]_vars

(***************************************************************************)
(* Properties of the driver (specification Spec)                           *)
(***************************************************************************)
\* The statement `label` of main() has completed.
Completed(label) == \E i \in 1..Len(executed) : executed[i] = label

\* The run has ended after loading both documents.
EndedAfterLoading == pc = "exited" /\ Completed("load_current")

\* How often x occurs in the list l.
Count(x, l) == Cardinality({i \in 1..Len(l) : l[i] = x})

\* The two endpoint mappings agree on their keys and, per key, on summary,
\* deprecated, tags and the set of parameter names.
SameTrackedEndpoints(b, c) ==
  /\ DOMAIN b = DOMAIN c
  /\ \A key \in DOMAIN b \cap DOMAIN c :
        /\ b[key].summary = c[key].summary
        /\ b[key].deprecated = c[key].deprecated
        /\ b[key].tags = c[key].tags
        /\ {b[key].parameters[i].name : i \in 1..Len(b[key].parameters)}
             = {c[key].parameters[i].name : i \in 1..Len(c[key].parameters)}

\* The two schema mappings agree on their names and, per name, on the set of
\* properties and the set of required names.
SameSchemasAsSets(b, c) ==
  /\ DOMAIN b = DOMAIN c
  /\ \A n \in DOMAIN b \cap DOMAIN c :
        /\ set_of(b[n].properties) = set_of(c[n].properties)
        /\ set_of(b[n].required) = set_of(c[n].required)

\* As SameSchemasAsSets, but a required name counts as often as it is listed.
SameSchemasWithMultiplicity(b, c) ==
  /\ DOMAIN b = DOMAIN c
  /\ \A n \in DOMAIN b \cap DOMAIN c :
        /\ set_of(b[n].properties) = set_of(c[n].properties)
        /\ \A x \in set_of(b[n].required) \cup set_of(c[n].required) :
              Count(x, b[n].required) = Count(x, c[n].required)

\* A document diffed against itself: all six collections empty, status 0.
ReflexiveRunIsClean ==
  (EndedAfterLoading /\ files[1].doc = files[2].doc) =>
     /\ Completed("exit")
     /\ Len(ep.added) = 0 /\ Len(ep.removed) = 0 /\ Len(ep.changed) = 0
     /\ Len(sc.added) = 0 /\ Len(sc.removed) = 0 /\ Len(sc.changed) = 0
     /\ exit_status = <<0>>

\* C1 as stated: whenever both documents load, the exit status is 0 if and only
\* if the documents agree on all tracked fields, with the required names of a
\* schema compared as a set, and 1 otherwise; a document against itself gives
\* empty collections and status 0.
C1_ExitStatusBySets ==
  /\ EndedAfterLoading =>
        exit_status = IF /\ SameTrackedEndpoints(baseline_endpoints, current_endpoints)
                         /\ SameSchemasAsSets(baseline_schemas, current_schemas)
                        THEN <<0>> ELSE <<1>>
  /\ ReflexiveRunIsClean

\* C1 as amended: whenever both documents load, the exit status is 0 if and only
\* if the documents agree on all tracked fields, where the required names of a
\* schema are compared with their multiplicity (the sorted required lists are
\* equal), and 1 otherwise; a document against itself gives empty collections
\* and status 0.
C1_ExitStatusIffTrackedFieldsAgree ==
  /\ EndedAfterLoading =>
        exit_status = IF /\ SameTrackedEndpoints(baseline_endpoints, current_endpoints)
                         /\ SameSchemasWithMultiplicity(baseline_schemas, current_schemas)
                        THEN <<0>> ELSE <<1>>
  /\ ReflexiveRunIsClean

\* C1's case: two different documents that agree on every tracked field have
\* been diffed and the run has exited with status 0.
C1_Witness ==
  /\ EndedAfterLoading /\ Completed("exit")
  /\ files[1].doc # files[2].doc
  /\ DOMAIN baseline_endpoints # {}
  /\ DOMAIN baseline_schemas # {}
  /\ exit_status = <<0>>

\* C2 as stated: with an argument count other than two the run ends without a
\* report and with a non-zero status that differs from the status 1 of a run
\* that found changes.
C2_UsageStatusDistinct ==
  (pc = "exited" /\ argv_len # 3) =>
     /\ Len(stdout) = 0 /\ Len(report) = 0
     /\ exit_status # <<0>>
     /\ exit_status # <<1>>

\* C2 as amended: with an argument count other than two the run ends at once,
\* having executed no statement of the pipeline and printed no report, with the
\* usage line on stderr and the non-zero status 1, the same number a run that
\* found changes exits with.
C2_UsageErrorExitsWithOne ==
  /\ argv_len # 3 => pc \in {"main", "exited"}
  /\ (pc = "exited" /\ argv_len # 3) =>
        /\ Len(stdout) = 0 /\ Len(report) = 0 /\ Len(executed) = 0
        /\ stderr = <<"Usage: {sys.argv[0]} <baseline.json> <current.json>">>
        /\ exit_status = <<1>>

\* C2's case: the tool was started with three positional arguments and has
\* exited.
C2_Witness == pc = "exited" /\ argv_len = 4 /\ exit_status = <<1>>

\* C4 as stated: whenever both documents load, whatever optional fields their
\* endpoints and parameter descriptors lack, extraction, both diffs and the
\* report all complete and the run ends with status 0 or 1.
C4_MissingFieldsNeverRaise ==
  EndedAfterLoading =>
     /\ Completed("diff_endpoints") /\ Completed("diff_schemas")
     /\ Completed("format_report") /\ Completed("print") /\ Completed("exit")
     /\ exit_status \in {<<0>>, <<1>>}

\* C5: report text is on stdout only after both documents were loaded; if the
\* baseline or the current document fails to load the run ends there, with
\* nothing on stdout, no report built and no later statement executed.
C5_NoReportUnlessBothLoaded ==
  /\ Len(stdout) > 0 =>
        /\ Completed("load_baseline") /\ Completed("load_current")
        /\ files[1].kind = "json" /\ files[2].kind = "json"
        /\ baseline_spec = files[1].doc /\ current_spec = files[2].doc
  /\ (argv_len = 3 /\ files[1].kind # "json") =>
        /\ pc \in {"main", "load_baseline", "exited"}
        /\ Len(stdout) = 0 /\ Len(report) = 0
        /\ Len(executed) <= 1
        /\ pc = "exited" => (executed = <<"main">> /\ exit_status = <<1>>)
  /\ (argv_len = 3 /\ files[1].kind = "json" /\ files[2].kind # "json") =>
        /\ pc \in {"main", "load_baseline", "load_current", "exited"}
        /\ Len(stdout) = 0 /\ Len(report) = 0
        /\ Len(executed) <= 2
        /\ pc = "exited" => (executed = <<"main", "load_baseline">> /\ exit_status = <<1>>)
  /\ \A i \in 1..Len(executed) : executed[i] = STATEMENTS[i]

\* C5's case: the baseline loaded, loading the current document failed and
\* the run has ended.
C5_Witness ==
  /\ pc = "exited" /\ argv_len = 3
  /\ files[1].kind = "json" /\ files[2].kind = "not json"
  /\ DOMAIN baseline_spec # {}

(***************************************************************************)
(* Properties of extraction (specification SpecExtract)                    *)
(***************************************************************************)
\* The five method names in lower case and the upper-case form of each.
UpperCaseOf == (get :> GET) @@ (post :> POST) @@ (put :> PUT)
                 @@ (patch :> PATCH) @@ (delete :> DELETE)

\* The key is one of the five method names in some letter case.
IsMethodInSomeCase(k) ==
  \E m \in DOMAIN UpperCaseOf :
     /\ Len(k) = Len(m)
     /\ \A i \in 1..Len(k) : k[i] = m[i] \/ k[i] = UpperCaseOf[m][i]

\* The method name, in upper case, that the key spells in some letter case.
MethodSpelledBy(k) ==
  UpperCaseOf[CHOOSE m \in DOMAIN UpperCaseOf :
                 /\ Len(k) = Len(m)
                 /\ \A i \in 1..Len(k) : k[i] = m[i] \/ k[i] = UpperCaseOf[m][i]]

BaselinePaths == dict_get(baseline_spec, "paths", EmptyDict)

\* C3 as stated: every key of a path item that is one of the five methods in
\* any letter case gives a record under (upper-cased method, path), and every
\* record comes from such a key.
C3_MethodsInAnyCase ==
  Completed("extract_baseline_endpoints") =>
     /\ \A p \in DOMAIN BaselinePaths : \A k \in DOMAIN BaselinePaths[p] :
           IsMethodInSomeCase(k) => <<MethodSpelledBy(k), p>> \in DOMAIN baseline_endpoints
     /\ \A key \in DOMAIN baseline_endpoints :
           \E k \in DOMAIN BaselinePaths[key[2]] :
              IsMethodInSomeCase(k) /\ MethodSpelledBy(k) = key[1]

\* C3 as amended: a key of a path item gives a record, under (upper-cased
\* method, path) and built from the object under that key, exactly when it is
\* one of get, post, put, patch, delete spelled in lower case; a method name in
\* another letter case (GET, Get), a vendor extension or a path-level
\* parameters key gives no record.
C3_OnlyLowerCaseMethods ==
  Completed("extract_baseline_endpoints") =>
     /\ \A p \in DOMAIN BaselinePaths : \A k \in DOMAIN BaselinePaths[p] :
           k \in DOMAIN UpperCaseOf =>
              /\ <<UpperCaseOf[k], p>> \in DOMAIN baseline_endpoints
              /\ baseline_endpoints[<<UpperCaseOf[k], p>>].operationId
                   = dict_get(BaselinePaths[p][k], "operationId", "")
     /\ \A key \in DOMAIN baseline_endpoints :
           /\ key[2] \in DOMAIN BaselinePaths
           /\ \E k \in DOMAIN BaselinePaths[key[2]] :
                 k \in DOMAIN UpperCaseOf /\ UpperCaseOf[k] = key[1]

\* C3's case: a path item holding a lower-case method key, the same method in
\* upper case under another name and a key that is no method has been extracted.
C3_Witness ==
  /\ Completed("extract_baseline_endpoints")
  /\ boards \in DOMAIN BaselinePaths
  /\ DOMAIN BaselinePaths[boards] = {post, DELETE, parameters_key}
  /\ DOMAIN baseline_endpoints = {<<POST, boards>>}

(***************************************************************************)
(* Properties of diff_endpoints and diff_schemas (specification SpecDiff)  *)
(***************************************************************************)
\* The keys of the entries of a changed list.
ChangedKeys(changed) == {changed[i][1] : i \in 1..Len(changed)}

\* The list has no element twice.
NoRepeats(l) == \A i, j \in 1..Len(l) : l[i] = l[j] => i = j

\* C6: added, removed, the changed keys and the shared keys not reported as
\* changed are pairwise disjoint and together are the union of the two key
\* sets; added is current - baseline, removed is baseline - current, every
\* changed key is shared and appears once.
C6_DiffPartitionsKeys ==
  Completed("diff_endpoints") =>
     LET B == DOMAIN baseline_endpoints
         C == DOMAIN current_endpoints
         A == set_of(ep.added)
         R == set_of(ep.removed)
         Ch == ChangedKeys(ep.changed)
         U == (B \cap C) \ Ch
     IN  /\ A = C \ B
         /\ R = B \ C
         /\ Ch \subseteq B \cap C
         /\ A \cup R \cup Ch \cup U = B \cup C
         /\ A \cap R = {} /\ A \cap Ch = {} /\ A \cap U = {}
         /\ R \cap Ch = {} /\ R \cap U = {} /\ Ch \cap U = {}
         /\ NoRepeats(ep.added) /\ NoRepeats(ep.removed)
         /\ NoRepeats([i \in 1..Len(ep.changed) |-> ep.changed[i][1]])

\* C6's case: a diff in which all four groups are non-empty.
C6_Witness ==
  /\ Completed("diff_endpoints")
  /\ Len(ep.added) > 0 /\ Len(ep.removed) > 0 /\ Len(ep.changed) > 0
  /\ (DOMAIN baseline_endpoints \cap DOMAIN current_endpoints) \ ChangedKeys(ep.changed) # {}

\* C7: diffing current against baseline instead gives added and removed
\* swapped and the same set of changed keys, for endpoints and for schemas.
C7_DiffSymmetry ==
  /\ Completed("diff_endpoints") =>
        LET reverse == diff_endpoints(current_endpoints, baseline_endpoints)
        IN  /\ ~reverse.raised
            /\ ep.added = reverse.removed
            /\ ep.removed = reverse.added
            /\ ChangedKeys(ep.changed) = ChangedKeys(reverse.changed)
  /\ Completed("diff_schemas") =>
        LET reverse == diff_schemas(current_schemas, baseline_schemas)
        IN  /\ sc.added = reverse.removed
            /\ sc.removed = reverse.added
            /\ ChangedKeys(sc.changed) = ChangedKeys(reverse.changed)

\* C7's case: a diff with a key changed only by a parameter
\* that disappeared.
C7_Witness ==
  /\ Completed("diff_endpoints")
  /\ \E i \in 1..Len(ep.changed) :
        /\ Len(ep.changed[i][2]) = 1
        /\ ep.changed[i][2][1].kind = "removed params"

\* The kinds of the change descriptions of one changed entry, in order.
Kinds(entry) == [i \in 1..Len(entry[2]) |-> entry[2][i].kind]

\* The descriptions C8 expects for a shared key, in the order of the checks.
ExpectedKinds(old, new) ==
  LET old_names == {old.parameters[i].name : i \in 1..Len(old.parameters)}
      new_names == {new.parameters[i].name : i \in 1..Len(new.parameters)}
  IN  (IF old.summary # new.summary THEN <<"summary">> ELSE <<>>)
      \o (IF old.deprecated # new.deprecated THEN <<"deprecated">> ELSE <<>>)
      \o (IF old.tags # new.tags THEN <<"tags">> ELSE <<>>)
      \o (IF new_names \ old_names # {} THEN <<"new params">> ELSE <<>>)
      \o (IF old_names \ new_names # {} THEN <<"removed params">> ELSE <<>>)

\* C8: a shared key is in changed if and only if its summaries differ, its
\* deprecated flags differ, its tags differ as sequences or its sets of
\* parameter names differ; every check that fires is listed; operationId, a
\* parameter's location or required flag, and the order or multiplicity of
\* parameters do not count.
C8_ChangedIffACheckFires ==
  Completed("diff_endpoints") =>
     \A key \in DOMAIN baseline_endpoints \cap DOMAIN current_endpoints :
        LET old == baseline_endpoints[key]
            new == current_endpoints[key]
        IN  /\ key \in ChangedKeys(ep.changed) <=> Len(ExpectedKinds(old, new)) > 0
            /\ \A i \in 1..Len(ep.changed) :
                  ep.changed[i][1] = key => Kinds(ep.changed[i]) = ExpectedKinds(old, new)

\* C8's case: a shared key whose tags are the same two tags in another order
\* and whose parameters differ only in order, location and required flag, is
\* reported as changed with the tags as its only change.
C8_Witness ==
  /\ Completed("diff_endpoints")
  /\ \E i \in 1..Len(ep.changed) :
        LET old == baseline_endpoints[ep.changed[i][1]]
            new == current_endpoints[ep.changed[i][1]]
        IN  /\ Kinds(ep.changed[i]) = <<"tags">>
            /\ old.tags = <<"boards", "beta">> /\ new.tags = <<"beta", "boards">>
            /\ Len(old.parameters) = 2 /\ Len(new.parameters) = 2
            /\ old.parameters # new.parameters

(***************************************************************************)
(* Properties of categorize_endpoint (specification SpecCategorize)        *)
(***************************************************************************)
\* The literal occurs in the path, character by character; with any_case the
\* path's characters are compared without regard to letter case.
Occurs(literal, p, any_case) ==
  \E start \in 1..Len(p) :
     \A j \in 1..Len(literal) :
        /\ start + j - 1 <= Len(p)
        /\ \/ p[start + j - 1] = literal[j]
           \/ /\ any_case
              /\ IsIn(LowerAlpha, literal[j])
              /\ p[start + j - 1] = UpperAlpha[IndexIn(LowerAlpha, literal[j])]

\* C9: the label is experimental whenever the path contains /v2-experimental/,
\* otherwise enterprise whenever it contains /orgs/ or, in any letter case,
\* enterprise, otherwise standard; the method does not matter.
C9_CategorizerPriority ==
  pc = "categorized" =>
     /\ cat_label \in {"standard", "experimental", "enterprise"}
     /\ cat_label = IF Occurs(V2_EXPERIMENTAL, cat_path, FALSE) THEN "experimental"
                    ELSE IF Occurs(ORGS, cat_path, FALSE) \/ Occurs(ENTERPRISE, cat_path, TRUE)
                           THEN "enterprise"
                           ELSE "standard"
     /\ \A m \in {str_upper(k) : k \in HTTP_METHODS} :
           categorize_endpoint(m, cat_path) = cat_label

\* C9's case: a path containing /v2-experimental/, /orgs/ and enterprise has
\* been categorized.
C9_Witness ==
  /\ pc = "categorized"
  /\ Occurs(V2_EXPERIMENTAL, cat_path, FALSE)
  /\ Occurs(ORGS, cat_path, FALSE)
  /\ Occurs(ENTERPRISE, cat_path, TRUE)
  /\ cat_label = "experimental"

(***************************************************************************)
(* Properties of the schema pipeline (specification SpecSchemas)           *)
(***************************************************************************)
\* The required list of a schema as the document gives it.
RawRequired(doc, n) ==
  dict_get(dict_get(dict_get(doc, "components", EmptyDict), "schemas", EmptyDict)[n],
           "required", <<>>)

\* The changed entry of schema n lists a `required changed` description.
RequiredChangeReported(n) ==
  \E i \in 1..Len(sc.changed) :
     /\ sc.changed[i][1] = n
     /\ \E j \in 1..Len(sc.changed[i][2]) : sc.changed[i][2][j].kind = "required changed"

\* C10 as stated: for a schema in both documents, `required changed` is
\* reported if and only if the two required lists differ as sets.
C10_RequiredChangedIffSetsDiffer ==
  Completed("diff_schemas") =>
     \A n \in DOMAIN baseline_schemas \cap DOMAIN current_schemas :
        RequiredChangeReported(n)
          <=> set_of(RawRequired(baseline_spec, n)) # set_of(RawRequired(current_spec, n))

\* C10 as amended: for a schema in both documents, `required changed` is
\* reported if and only if some name is listed a different number of times in
\* the two required lists; the order of the lists does not matter, and for
\* lists that repeat no name this is set inequality.
C10_RequiredChangedIffMultisetsDiffer ==
  Completed("diff_schemas") =>
     \A n \in DOMAIN baseline_schemas \cap DOMAIN current_schemas :
        LET old == RawRequired(baseline_spec, n)
            new == RawRequired(current_spec, n)
        IN  /\ RequiredChangeReported(n)
                 <=> \E x \in set_of(old) \cup set_of(new) : Count(x, old) # Count(x, new)
            /\ (NoRepeats(old) /\ NoRepeats(new)) =>
                  (RequiredChangeReported(n) <=> set_of(old) # set_of(new))

\* C10's case: a schema whose required list holds the same two names in
\* another order in the two documents has been diffed, and no change of
\* required is reported.
C10_Witness ==
  /\ Completed("diff_schemas")
  /\ Board \in DOMAIN baseline_schemas \cap DOMAIN current_schemas
  /\ RawRequired(baseline_spec, Board) = <<name, id>>
  /\ RawRequired(current_spec, Board) = <<id, name>>
  /\ ~RequiredChangeReported(Board)

====
